---- MODULE Spec2Model ----
(***************************************************************************)
(* Course/Student API (src/main.py, src/models/student.py,                 *)
(* src/models/course.py): two in-memory dicts behind FastAPI handlers.     *)
(*                                                                         *)
(* A request is one step: the schema layer validates the body (422), the   *)
(* handler body runs (an HTTPException gives 400/404, any other exception  *)
(* raised inside the handler gives 500), and the response is in flight in  *)
(* `response` until it is delivered.  Requests are served one at a time.   *)
(***************************************************************************)
EXTENDS Integers, Sequences, FiniteSets, TLC

\* ------------------------------------------------------------------ bounds
\* datetime.utcnow() is read from a clock that runs from 0 to MaxClock.
MaxClock == 1

\* Small value sets the requests are drawn from.
UUIDs == {"u1", "u2"}
Names == {"Al", ""}
StudentIds == {"s1", "s2"}
Emails == {"a@x.edu", "b@x.edu"}
BadEmail == "not-an-email"

VARIABLES
    students,   \* main.py:21  dict UUID -> StudentRead, in insertion order
    courses,    \* main.py:22  dict UUID -> CourseRead, in insertion order
    now,        \* the value datetime.utcnow() returned last
    issued,     \* history: ids returned by successful create_student calls
    fresh,      \* history: id -> record returned by its create, until the id
                \*          is updated or deleted
    deleted,    \* history: ids deleted with no successful create since
    response,   \* the request being answered and its response, or Idle
    threads     \* worker thread -> the handler call it runs and its position

vars == <<students, courses, now, issued, fresh, deleted, response, threads>>

\* --------------------------------------------------------- Python values
\* A value inside a JSON body or a Python dict: a tag and the value.
PyStr(s) == [t |-> "str", v |-> s]
PyNone == [t |-> "none"]
PyDict == [t |-> "dict"]
PyUUID(u) == [t |-> "uuid", v |-> u]
PyDatetime(n) == [t |-> "datetime", v |-> n]
PyInt(n) == [t |-> "int", v |-> n]
PyList(items) == [t |-> "list", v |-> items]
IsNone(x) == x.t = "none"

\* --------------------------------------------------------- dict (ordered)
\* A Python dict is a sequence of <<key, value>> entries in insertion order.
Keys(d) == {d[i].key : i \in 1..Len(d)}

\* `k in d`
Contains(d, k) == k \in Keys(d)

Index(d, k) == CHOOSE i \in 1..Len(d) : d[i].key = k

\* `d[k]`
GetItem(d, k) == d[Index(d, k)].val

\* `d[k] = v`: an existing key keeps its position, a new key goes last
\* an assignment that moves an existing key to the end
SetItem_move_to_end(d, k, v) ==
    Append(SelectSeq(d, LAMBDA e : e.key # k), [key |-> k, val |-> v])

SetItem(d, k, v) ==
    IF Contains(d, k)
    THEN [d EXCEPT ![Index(d, k)] = [key |-> k, val |-> v]]
    ELSE Append(d, [key |-> k, val |-> v])

\* a delete that drops the oldest entry instead of the entry of k
DelItem_oldest(d, k) == SubSeq(d, 2, Len(d))

\* `del d[k]`
DelItem(d, k) == SelectSeq(d, LAMBDA e : e.key # k)

\* `list(d.values())`
Values(d) == [i \in 1..Len(d) |-> d[i].val]

\* `stored.update(other)` on plain dicts (field name -> value)
dict_update(stored, other) ==
    [f \in (DOMAIN stored) \cup (DOMAIN other) |->
        IF f \in DOMAIN other THEN other[f] ELSE stored[f]]

\* ------------------------------------------------------- student schemas
IsStr(x) == x.t = "str"
IsUUID(x) == x.t = "uuid"
IsDatetime(x) == x.t = "datetime"
IsInt(x) == x.t = "int"
\* EmailStr: a string with valid e-mail syntax
IsEmailStr(x) == x.t = "str" /\ x.v \in Emails

\* StudentBase: id defaults to uuid4(); name, student_id, email are required.
StudentBaseValid(d) ==
    /\ ("id" \in DOMAIN d => IsUUID(d.id))
    /\ "name" \in DOMAIN d /\ IsStr(d.name)
    /\ "student_id" \in DOMAIN d /\ IsStr(d.student_id)
    /\ "email" \in DOMAIN d /\ IsEmailStr(d.email)

\* StudentCreate(**body).model_dump(): the four declared fields, other keys
\* of the body are ignored; `uuid` is what uuid4() gives when id is absent.
StudentCreate(body, uuid) ==
    [id |-> IF "id" \in DOMAIN body THEN body.id ELSE PyUUID(uuid),
     name |-> body.name,
     student_id |-> body.student_id,
     email |-> body.email]

\* StudentUpdate: name and email, both Optional with default None.
StudentUpdateValid(body) ==
    /\ ("name" \in DOMAIN body => IsStr(body.name) \/ IsNone(body.name))
    /\ ("email" \in DOMAIN body => IsEmailStr(body.email) \/ IsNone(body.email))

\* an update model that keeps every key of the body (extra = "allow")
StudentUpdateDump_all(body) == body

\* StudentUpdate(**body).model_dump(exclude_unset=True): the declared fields
\* the body sets.
StudentUpdateDump(body) ==
    [f \in (DOMAIN body) \cap {"name", "email"} |-> body[f]]

\* StudentRead(**d) validates: StudentBase plus the two timestamps.
StudentReadValid(d) ==
    /\ StudentBaseValid(d)
    /\ "id" \in DOMAIN d
    /\ ("created_at" \in DOMAIN d => IsDatetime(d.created_at))
    /\ ("updated_at" \in DOMAIN d => IsDatetime(d.updated_at))

\* StudentRead(**d): created_at and updated_at default to utcnow(), read at
\* t1 and then at t2.
StudentRead(d, t1, t2) ==
    [id |-> d.id.v,
     name |-> d.name.v,
     student_id |-> d.student_id.v,
     email |-> d.email.v,
     created_at |-> IF "created_at" \in DOMAIN d THEN d.created_at.v ELSE t1,
     updated_at |-> IF "updated_at" \in DOMAIN d THEN d.updated_at.v ELSE t2]

\* a dump that leaves created_at out, so that StudentRead reads the clock
\* again for it
StudentReadDump_no_created_at(r) ==
    [id |-> PyUUID(r.id),
     name |-> PyStr(r.name),
     student_id |-> PyStr(r.student_id),
     email |-> PyStr(r.email),
     updated_at |-> PyDatetime(r.updated_at)]

\* a dump that leaves the two timestamps out, so that StudentRead reads the
\* clock again for both
StudentReadDump_no_timestamps(r) ==
    [id |-> PyUUID(r.id),
     name |-> PyStr(r.name),
     student_id |-> PyStr(r.student_id),
     email |-> PyStr(r.email)]

\* StudentRead.model_dump()
StudentReadDump(r) ==
    [id |-> PyUUID(r.id),
     name |-> PyStr(r.name),
     student_id |-> PyStr(r.student_id),
     email |-> PyStr(r.email),
     created_at |-> PyDatetime(r.created_at),
     updated_at |-> PyDatetime(r.updated_at)]

\* A request without a body, a response without one, and the body of a list
\* response.
NoBody == << >>
NoResult == [none |-> TRUE]
Listing(results) == [items |-> results]

\* ------------------------------------------------------ student handlers
\* Each handler gives [status, result, store]: the HTTP status, the response
\* body and the students dict after the call.
Response(status, result, store) ==
    [status |-> status, result |-> result, store |-> store]

\* create_student without the existence check of main.py:59-60
create_student_no_check(body, uuid, t1, t2) ==
    IF ~StudentBaseValid(body) THEN Response(422, NoResult, students)
    ELSE LET student_read == StudentRead(StudentCreate(body, uuid), t1, t2) IN
         Response(201, student_read,
                  SetItem(students, student_read.id, student_read))

\* create_student that stores a second StudentRead, built after the one it
\* returns
create_student_rebuild(body, uuid, t1, t2) ==
    IF ~StudentBaseValid(body) THEN Response(422, NoResult, students)
    ELSE LET student == StudentCreate(body, uuid) IN
         IF Contains(students, student.id.v)
         THEN Response(400, NoResult, students)
         ELSE Response(201, StudentRead(student, t1, t2),
                       SetItem(students, student.id.v,
                               StudentRead(student, t2, t2)))

\* create_student that inserts first and checks for the conflict afterwards
create_student_insert_first(body, uuid, t1, t2) ==
    IF ~StudentBaseValid(body) THEN Response(422, NoResult, students)
    ELSE LET student == StudentCreate(body, uuid)
             student_read == StudentRead(student, t1, t2)
             store == SetItem(students, student_read.id, student_read)
         IN IF Contains(students, student.id.v)
            THEN Response(400, NoResult, store)
            ELSE Response(201, student_read, store)

\* main.py:57-64
create_student(body, uuid, t1, t2) ==
    IF ~StudentBaseValid(body) THEN Response(422, NoResult, students)
    ELSE LET student == StudentCreate(body, uuid) IN
         IF Contains(students, student.id.v)
         THEN Response(400, NoResult, students)
         ELSE LET student_read == StudentRead(student, t1, t2) IN
              Response(201, student_read,
                       SetItem(students, student_read.id, student_read))

\* main.py:80-84
get_student(student_id) ==
    IF ~Contains(students, student_id)
    THEN Response(404, NoResult, students)
    ELSE Response(200, GetItem(students, student_id), students)

\* main.py:86-93
update_student(student_id, body, t) ==
    IF ~StudentUpdateValid(body) THEN Response(422, NoResult, students)
    ELSE IF ~Contains(students, student_id)
    THEN Response(404, NoResult, students)
    ELSE LET stored == dict_update(StudentReadDump(GetItem(students, student_id)),
                                   StudentUpdateDump(body)) IN
         IF ~StudentReadValid(stored)
         THEN Response(500, NoResult, students)
         ELSE LET store == SetItem(students, student_id, StudentRead(stored, t, t)) IN
              Response(200, GetItem(store, student_id), store)

\* main.py:95-100
delete_student(student_id) ==
    IF ~Contains(students, student_id)
    THEN Response(404, NoResult, students)
    ELSE Response(204, NoResult, DelItem(students, student_id))

\* list_students that tests the filters for truth (`if name:`) instead of
\* `is not None`
list_students_truthy(name, student_id) ==
    LET results == Values(students)
        byName == IF ~IsNone(name) /\ name.v # ""
                  THEN SelectSeq(results, LAMBDA s : s.name = name.v)
                  ELSE results
        byId == IF ~IsNone(student_id) /\ student_id.v # ""
                THEN SelectSeq(byName, LAMBDA s : s.student_id = student_id.v)
                ELSE byName
    IN Response(200, Listing(byId), students)

\* main.py:66-78
list_students(name, student_id) ==
    LET results == Values(students)
        byName == IF ~IsNone(name)
                  THEN SelectSeq(results, LAMBDA s : s.name = name.v)
                  ELSE results
        byId == IF ~IsNone(student_id)
                THEN SelectSeq(byName, LAMBDA s : s.student_id = student_id.v)
                ELSE byName
    IN Response(200, Listing(byId), students)

\* -------------------------------------------------------- course schemas
\* List[StudentBase]: a list whose items all validate as StudentBase.
IsStudentList(x) ==
    /\ x.t = "list"
    /\ \A i \in 1..Len(x.v) : StudentBaseValid(x.v[i])

\* CourseBase: name, code, professor, credits are required;
\* enrolled_students defaults to [].
CourseBaseValid(d) ==
    /\ "name" \in DOMAIN d /\ IsStr(d.name)
    /\ "code" \in DOMAIN d /\ IsStr(d.code)
    /\ "professor" \in DOMAIN d /\ IsStr(d.professor)
    /\ "credits" \in DOMAIN d /\ IsInt(d.credits)
    /\ ("enrolled_students" \in DOMAIN d => IsStudentList(d.enrolled_students))

\* CourseCreate(**body).model_dump(): CourseCreate declares the five fields
\* of CourseBase and no id; other keys of the body (an "id") are ignored.
CourseCreate(body) ==
    [name |-> body.name,
     code |-> body.code,
     professor |-> body.professor,
     credits |-> body.credits,
     enrolled_students |-> IF "enrolled_students" \in DOMAIN body
                           THEN body.enrolled_students ELSE PyList(<<>>)]

\* CourseUpdate: name, professor, enrolled_students, all Optional.
CourseUpdateValid(body) ==
    /\ ("name" \in DOMAIN body => IsStr(body.name) \/ IsNone(body.name))
    /\ ("professor" \in DOMAIN body
           => IsStr(body.professor) \/ IsNone(body.professor))
    /\ ("enrolled_students" \in DOMAIN body
           => IsStudentList(body.enrolled_students)
              \/ IsNone(body.enrolled_students))

\* CourseUpdate(**body).model_dump(exclude_unset=True)
CourseUpdateDump(body) ==
    [f \in (DOMAIN body) \cap {"name", "professor", "enrolled_students"}
        |-> body[f]]

\* CourseRead(**d) validates: CourseBase plus id and the two timestamps.
CourseReadValid(d) ==
    /\ CourseBaseValid(d)
    /\ ("id" \in DOMAIN d => IsUUID(d.id))
    /\ ("created_at" \in DOMAIN d => IsDatetime(d.created_at))
    /\ ("updated_at" \in DOMAIN d => IsDatetime(d.updated_at))

\* The embedded StudentBase of a stored course: its four fields.
EmbeddedStudent(d) ==
    [id |-> d.id.v, name |-> d.name.v, student_id |-> d.student_id.v,
     email |-> d.email.v]

EmbeddedStudentDump(r) ==
    [id |-> PyUUID(r.id), name |-> PyStr(r.name),
     student_id |-> PyStr(r.student_id), email |-> PyStr(r.email)]

\* CourseRead(**d): id defaults to uuid4(), created_at and updated_at to
\* utcnow(), read at t1 and then at t2.
CourseRead(d, uuid, t1, t2) ==
    [id |-> IF "id" \in DOMAIN d THEN d.id.v ELSE uuid,
     name |-> d.name.v,
     code |-> d.code.v,
     professor |-> d.professor.v,
     credits |-> d.credits.v,
     enrolled_students |->
        IF "enrolled_students" \in DOMAIN d
        THEN [i \in 1..Len(d.enrolled_students.v) |->
                 EmbeddedStudent(d.enrolled_students.v[i])]
        ELSE <<>>,
     created_at |-> IF "created_at" \in DOMAIN d THEN d.created_at.v ELSE t1,
     updated_at |-> IF "updated_at" \in DOMAIN d THEN d.updated_at.v ELSE t2]

\* CourseRead.model_dump()
CourseReadDump(r) ==
    [id |-> PyUUID(r.id),
     name |-> PyStr(r.name),
     code |-> PyStr(r.code),
     professor |-> PyStr(r.professor),
     credits |-> PyInt(r.credits),
     enrolled_students |->
        PyList([i \in 1..Len(r.enrolled_students) |->
                   EmbeddedStudentDump(r.enrolled_students[i])]),
     created_at |-> PyDatetime(r.created_at),
     updated_at |-> PyDatetime(r.updated_at)]

\* ------------------------------------------------------- course handlers
\* main.py:105-112.  `course.id` is read from a CourseCreate, which has no
\* such attribute: the read raises AttributeError (500).
create_course(body, uuid, t1, t2) ==
    IF ~CourseBaseValid(body) THEN Response(422, NoResult, courses)
    ELSE LET course == CourseCreate(body) IN
         IF "id" \notin DOMAIN course
         THEN Response(500, NoResult, courses)
         ELSE IF Contains(courses, course.id.v)
         THEN Response(400, NoResult, courses)
         ELSE LET course_read == CourseRead(course, uuid, t1, t2) IN
              Response(201, course_read,
                       SetItem(courses, course_read.id, course_read))

\* main.py:131-135
get_course(course_id) ==
    IF ~Contains(courses, course_id)
    THEN Response(404, NoResult, courses)
    ELSE Response(200, GetItem(courses, course_id), courses)

\* main.py:137-144
update_course(course_id, body, t) ==
    IF ~CourseUpdateValid(body) THEN Response(422, NoResult, courses)
    ELSE IF ~Contains(courses, course_id)
    THEN Response(404, NoResult, courses)
    ELSE LET stored == dict_update(CourseReadDump(GetItem(courses, course_id)),
                                   CourseUpdateDump(body)) IN
         IF ~CourseReadValid(stored)
         THEN Response(500, NoResult, courses)
         ELSE LET store == SetItem(courses, course_id,
                                   CourseRead(stored, course_id, t, t)) IN
              Response(200, GetItem(store, course_id), store)

\* main.py:146-151
delete_course(course_id) ==
    IF ~Contains(courses, course_id)
    THEN Response(404, NoResult, courses)
    ELSE Response(204, NoResult, DelItem(courses, course_id))

\* main.py:114-129
list_courses(name, professor, credits) ==
    LET results == Values(courses)
        byName == IF ~IsNone(name)
                  THEN SelectSeq(results, LAMBDA c : c.name = name.v)
                  ELSE results
        byProf == IF ~IsNone(professor)
                  THEN SelectSeq(byName, LAMBDA c : c.professor = professor.v)
                  ELSE byName
        byCredits == IF ~IsNone(credits)
                     THEN SelectSeq(byProf, LAMBDA c : c.credits = credits.v)
                     ELSE byProf
    IN Response(200, Listing(byCredits), courses)

\* -------------------------------------------------------- health handlers
\* The address socket.gethostbyname(socket.gethostname()) resolves to.
HostAddress == "127.0.0.1"

\* datetime.isoformat() of the clock value t, with the suffix appended to it
Timestamp(t, suffix) == [isoformat |-> t, suffix |-> suffix]

\* The Health model: a record of the six fields it is constructed with.
Health(status, status_message, timestamp, ip_address, echo, path_echo) ==
    [status |-> status,
     status_message |-> status_message,
     timestamp |-> timestamp,
     ip_address |-> ip_address,
     echo |-> echo,
     path_echo |-> path_echo]

\* a health record in which the path segment takes precedence as echo
make_health_path_precedence(echo, path_echo, t) ==
    Health(200, "OK", Timestamp(t, "Z"), HostAddress,
           IF IsNone(path_echo) THEN echo ELSE path_echo, path_echo)

make_health(echo, path_echo, t) ==
    Health(200, "OK", Timestamp(t, "Z"), HostAddress, echo, path_echo)

\* GET /health?echo=
get_health_no_path(echo, t) ==
    [status |-> 200, result |-> make_health(echo, PyNone, t)]

\* GET /health/{path_echo}?echo=
get_health_with_path(path_echo, echo, t) ==
    [status |-> 200, result |-> make_health(echo, path_echo, t)]

\* --------------------------------------------------------------- requests
\* A JSON body is a function from the keys it carries to their values.
Unset == [t |-> "unset"]
MakeBody(r) == [f \in {g \in DOMAIN r : r[g].t # "unset"} |-> r[f]]

\* POST /students bodies: every valid one (id given or left to the server),
\* and three the schema rejects.
StudentCreateBodies ==
    { MakeBody([id |-> i, name |-> PyStr(n), student_id |-> PyStr(s),
                email |-> PyStr(e)]) :
        i \in {Unset} \cup {PyUUID(u) : u \in UUIDs},
        n \in Names, s \in StudentIds, e \in Emails }
    \cup { [student_id |-> PyStr("s1"), email |-> PyStr("a@x.edu")],
           [name |-> PyNone, student_id |-> PyStr("s1"),
            email |-> PyStr("a@x.edu")],
           [name |-> PyStr("Al"), student_id |-> PyStr("s1"),
            email |-> PyStr(BadEmail)] }

\* PATCH /students/{id} bodies: name and email unset, set or null, and
\* bodies carrying keys StudentUpdate does not declare.
StudentUpdateBodies ==
    { MakeBody([name |-> n, email |-> e]) :
        n \in {Unset, PyNone} \cup {PyStr(x) : x \in Names},
        e \in {Unset, PyNone} \cup {PyStr(x) : x \in Emails} }
    \cup { [student_id |-> PyStr("s2")],
           [student_id |-> PyStr("s2"), name |-> PyStr("Al")],
           [id |-> PyUUID("u2")],
           [email |-> PyStr(BadEmail)] }

NameFilters == {PyNone} \cup {PyStr(n) : n \in Names}
StudentIdFilters == {PyNone} \cup {PyStr(s) : s \in StudentIds}

Snapshot == [id |-> PyUUID("u1"), name |-> PyStr("Al"),
             student_id |-> PyStr("s1"), email |-> PyStr("a@x.edu")]

\* POST /courses bodies: valid ones, with and without enrolled students and
\* a client-chosen id, and one the schema rejects.
CourseCreateBodies ==
    { MakeBody([id |-> i, name |-> PyStr("Cloud"), code |-> PyStr("C1"),
                professor |-> PyStr("Prof"), credits |-> PyInt(3),
                enrolled_students |-> l]) :
        i \in {Unset, PyUUID("u1")},
        l \in {Unset, PyList(<<>>), PyList(<<Snapshot>>)} }
    \cup { [code |-> PyStr("C1"), professor |-> PyStr("Prof"),
            credits |-> PyInt(3)] }

\* PATCH /courses/{id} bodies
CourseUpdateBodies ==
    { [name |-> PyStr("DB")], [professor |-> PyStr("Klein")],
      [enrolled_students |-> PyList(<<Snapshot>>)],
      [name |-> PyNone], [enrolled_students |-> PyNone],
      [code |-> PyStr("C2")], [credits |-> PyInt(4)],
      [name |-> PyDict] }

CourseNameFilters == {PyNone, PyStr("Cloud")}
ProfessorFilters == {PyNone, PyStr("Prof")}
CreditsFilters == {PyNone, PyInt(3)}

NoId == "none"

\* The echo query parameter (None when absent) and the path segment.
EchoQueries == {PyNone, PyStr("ping")}
PathEchoes == {PyStr("pong")}

\* No request is being answered.
Idle == [op |-> "none", id |-> NoId, body |-> NoBody, status |-> 0,
         result |-> NoResult]

Request(op, id, body, r) ==
    [op |-> op, id |-> id, body |-> body, status |-> r.status,
     result |-> r.result]

\* fresh without the entry of id
Forget(f, id) == [k \in (DOMAIN f) \ {id} |-> f[k]]

\* The handlers are declared with def, not async def, so each call runs in a
\* worker thread of the pool; two threads are enough for two calls to overlap.
Threads == {"w1", "w2"}

\* A worker thread that runs no call.
IdleThread ==
    [pc |-> "idle", op |-> "none", id |-> NoId, body |-> NoBody,
     present |-> FALSE, stored |-> NoResult, status |-> 0, result |-> NoResult]

\* ---------------------------------------------------------------- actions
\* Time passes between requests (Tick) and, inside create, between the two
\* utcnow() defaults of the Read model (du).
Init ==
    /\ students = <<>>
    /\ courses = <<>>
    /\ now = 0
    /\ issued = {}
    /\ fresh = <<>>
    /\ deleted = {}
    /\ response = Idle
    /\ threads = [w \in Threads |-> IdleThread]

Tick ==
    /\ response.op = "none"
    /\ UNCHANGED threads
    /\ now < MaxClock
    /\ now' = now + 1
    /\ UNCHANGED <<students, courses, issued, fresh, deleted, response>>

\* The response is delivered to the client.
Respond ==
    /\ response.op # "none"
    /\ UNCHANGED threads
    /\ response' = Idle
    /\ UNCHANGED <<students, courses, now, issued, fresh, deleted>>

\* uuid4() is read only when the body carries no id; it gives an id no
\* earlier create has returned.
CreateStudent ==
    /\ response.op = "none"
    /\ UNCHANGED threads
    /\ \E body \in StudentCreateBodies, du \in 0..1 :
       \E uuid \in (IF "id" \in DOMAIN body THEN {NoId} ELSE UUIDs \ issued) :
        LET r == create_student(body, uuid, now, now + du)
        IN /\ now + du <= MaxClock
           /\ (r.status # 201 => du = 0)
           /\ students' = r.store
           /\ now' = now + du
           /\ issued' = IF r.status = 201 THEN issued \cup {r.result.id}
                        ELSE issued
           /\ fresh' = IF r.status = 201
                       THEN [k \in (DOMAIN fresh) \cup {r.result.id} |->
                               IF k = r.result.id THEN r.result ELSE fresh[k]]
                       ELSE fresh
           /\ deleted' = IF r.status = 201 THEN deleted \ {r.result.id}
                         ELSE deleted
           /\ response' = Request("create_student", NoId, body, r)
           /\ UNCHANGED courses

GetStudent ==
    /\ response.op = "none"
    /\ UNCHANGED threads
    /\ \E id \in UUIDs :
        LET r == get_student(id)
        IN /\ students' = r.store
           /\ response' = Request("get_student", id, NoBody, r)
           /\ UNCHANGED <<courses, now, issued, fresh, deleted>>

ListStudents ==
    /\ response.op = "none"
    /\ UNCHANGED threads
    /\ \E name \in NameFilters, student_id \in StudentIdFilters :
        LET r == list_students(name, student_id)
        IN /\ students' = r.store
           /\ response' = Request("list_students", NoId,
                                  [name |-> name, student_id |-> student_id], r)
           /\ UNCHANGED <<courses, now, issued, fresh, deleted>>

UpdateStudent ==
    /\ response.op = "none"
    /\ UNCHANGED threads
    /\ \E id \in UUIDs, body \in StudentUpdateBodies :
        LET r == update_student(id, body, now)
        IN /\ students' = r.store
           /\ fresh' = IF r.status = 200 THEN Forget(fresh, id) ELSE fresh
           /\ response' = Request("update_student", id, body, r)
           /\ UNCHANGED <<courses, now, issued, deleted>>

DeleteStudent ==
    /\ response.op = "none"
    /\ UNCHANGED threads
    /\ \E id \in UUIDs :
        LET r == delete_student(id)
        IN /\ students' = r.store
           /\ fresh' = IF r.status = 204 THEN Forget(fresh, id) ELSE fresh
           /\ deleted' = IF r.status = 204 THEN deleted \cup {id} ELSE deleted
           /\ response' = Request("delete_student", id, NoBody, r)
           /\ UNCHANGED <<courses, now, issued>>

CreateCourse ==
    /\ response.op = "none"
    /\ UNCHANGED threads
    /\ \E body \in CourseCreateBodies, uuid \in UUIDs, du \in 0..1 :
        LET r == create_course(body, uuid, now, now + du)
        IN /\ now + du <= MaxClock
           /\ (r.status # 201 => du = 0)
           /\ courses' = r.store
           /\ now' = now + du
           /\ response' = Request("create_course", NoId, body, r)
           /\ UNCHANGED <<students, issued, fresh, deleted>>

GetCourse ==
    /\ response.op = "none"
    /\ UNCHANGED threads
    /\ \E id \in UUIDs :
        LET r == get_course(id)
        IN /\ courses' = r.store
           /\ response' = Request("get_course", id, NoBody, r)
           /\ UNCHANGED <<students, now, issued, fresh, deleted>>

ListCourses ==
    /\ response.op = "none"
    /\ UNCHANGED threads
    /\ \E name \in CourseNameFilters, professor \in ProfessorFilters,
          credits \in CreditsFilters :
        LET r == list_courses(name, professor, credits)
        IN /\ courses' = r.store
           /\ response' = Request("list_courses", NoId,
                                  [name |-> name, professor |-> professor,
                                   credits |-> credits], r)
           /\ UNCHANGED <<students, now, issued, fresh, deleted>>

UpdateCourse ==
    /\ response.op = "none"
    /\ UNCHANGED threads
    /\ \E id \in UUIDs, body \in CourseUpdateBodies :
        LET r == update_course(id, body, now)
        IN /\ courses' = r.store
           /\ response' = Request("update_course", id, body, r)
           /\ UNCHANGED <<students, now, issued, fresh, deleted>>

\* a delete_course that removes the id from students instead of courses
DeleteCourse_from_students ==
    /\ response.op = "none"
    /\ UNCHANGED threads
    /\ \E id \in UUIDs :
        LET r == delete_student(id)
        IN /\ students' = r.store
           /\ response' = Request("delete_course", id, NoBody, r)
           /\ UNCHANGED <<courses, now, issued, fresh, deleted>>

DeleteCourse ==
    /\ response.op = "none"
    /\ UNCHANGED threads
    /\ \E id \in UUIDs :
        LET r == delete_course(id)
        IN /\ courses' = r.store
           /\ response' = Request("delete_course", id, NoBody, r)
           /\ UNCHANGED <<students, now, issued, fresh, deleted>>

GetHealthNoPath ==
    /\ response.op = "none"
    /\ UNCHANGED threads
    /\ \E echo \in EchoQueries :
        LET r == get_health_no_path(echo, now)
        IN /\ response' = Request("get_health_no_path", NoId,
                                  [echo |-> echo], r)
           /\ UNCHANGED <<students, courses, now, issued, fresh, deleted>>

GetHealthWithPath ==
    /\ response.op = "none"
    /\ UNCHANGED threads
    /\ \E echo \in EchoQueries, path_echo \in PathEchoes :
        LET r == get_health_with_path(path_echo, echo, now)
        IN /\ response' = Request("get_health_with_path", NoId,
                                  [echo |-> echo, path_echo |-> path_echo], r)
           /\ UNCHANGED <<students, courses, now, issued, fresh, deleted>>

Next ==
    \/ Tick
    \/ Respond
    \/ CreateStudent
    \/ GetStudent
    \/ ListStudents
    \/ UpdateStudent
    \/ DeleteStudent
    \/ CreateCourse
    \/ GetCourse
    \/ ListCourses
    \/ UpdateCourse
    \/ DeleteCourse
    \/ GetHealthNoPath
    \/ GetHealthWithPath

Spec == Init /\ [][Next]_vars

\* ------------------------------------------------------ concurrent calls
\* The student handlers run in worker threads that share the students dict
\* without a lock. A thread runs its handler one statement at a time; the
\* other thread may run between any two statements. The calls of one round
\* are answered together (Finish), so two calls that are both done belong to
\* the same round.
ConcId == "u1"

ConcCalls ==
    { [op |-> "create_student", id |-> ConcId,
       body |-> [id |-> PyUUID(ConcId), name |-> PyStr("Al"),
                 student_id |-> PyStr("s1"), email |-> PyStr(e)]] :
        e \in Emails }
    \cup { [op |-> "update_student", id |-> ConcId,
            body |-> [email |-> PyStr("b@x.edu")]],
           [op |-> "delete_student", id |-> ConcId, body |-> NoBody] }

\* The thread goes to statement pc.
Goto(th, pc) == [th EXCEPT !.pc = pc]

\* The handler returns or raises: the call is answered with status.
Done(th, status, result) ==
    [th EXCEPT !.pc = "done", !.status = status, !.result = result]

Step(w, th) ==
    /\ threads' = [threads EXCEPT ![w] = th]
    /\ UNCHANGED <<courses, now, issued, fresh, deleted, response>>

\* A thread takes a call whose body the schema accepts; present records
\* whether the id is stored at that moment.
Accept ==
    \E w \in Threads, call \in ConcCalls :
        /\ threads[w].pc = "idle"
        /\ Step(w, [IdleThread EXCEPT !.pc = call.op, !.op = call.op,
                                      !.id = call.id, !.body = call.body,
                                      !.present = Contains(students, call.id)])
        /\ UNCHANGED students

\* main.py:59-60  if student.id in students: raise HTTPException(400)
CreateStudentCheck ==
    \E w \in Threads :
        LET th == threads[w] IN
        /\ th.pc = "create_student"
        /\ Step(w, IF Contains(students, th.id)
                   THEN Done(th, 400, NoResult)
                   ELSE Goto(th, "create_student_insert"))
        /\ UNCHANGED students

\* main.py:62-64  student_read = StudentRead(...); students[id] = student_read
CreateStudentInsert ==
    \E w \in Threads :
        LET th == threads[w]
            student_read == StudentRead(StudentCreate(th.body, NoId), now, now)
        IN /\ th.pc = "create_student_insert"
           /\ students' = SetItem(students, student_read.id, student_read)
           /\ Step(w, Done(th, 201, student_read))

\* main.py:88-89  if student_id not in students: raise HTTPException(404)
UpdateStudentCheck ==
    \E w \in Threads :
        LET th == threads[w] IN
        /\ th.pc = "update_student"
        /\ Step(w, IF ~Contains(students, th.id)
                   THEN Done(th, 404, NoResult)
                   ELSE Goto(th, "update_student_read"))
        /\ UNCHANGED students

\* main.py:90  stored = students[student_id].model_dump(); a missing key
\* raises KeyError, which is answered as 500
UpdateStudentRead ==
    \E w \in Threads :
        LET th == threads[w] IN
        /\ th.pc = "update_student_read"
        /\ Step(w, IF ~Contains(students, th.id)
                   THEN Done(th, 500, NoResult)
                   ELSE [Goto(th, "update_student_write") EXCEPT
                            !.stored = StudentReadDump(GetItem(students, th.id))])
        /\ UNCHANGED students

\* main.py:91-92  stored.update(...); students[student_id] = StudentRead(**stored)
UpdateStudentWrite ==
    \E w \in Threads :
        LET th == threads[w]
            stored == dict_update(th.stored, StudentUpdateDump(th.body))
        IN /\ th.pc = "update_student_write"
           /\ IF ~StudentReadValid(stored)
              THEN /\ Step(w, Done(th, 500, NoResult))
                   /\ UNCHANGED students
              ELSE /\ students' = SetItem(students, th.id,
                                          StudentRead(stored, now, now))
                   /\ Step(w, Goto(th, "update_student_return"))

\* main.py:93  return students[student_id]; a missing key raises KeyError
UpdateStudentReturn ==
    \E w \in Threads :
        LET th == threads[w] IN
        /\ th.pc = "update_student_return"
        /\ Step(w, IF ~Contains(students, th.id)
                   THEN Done(th, 500, NoResult)
                   ELSE Done(th, 200, GetItem(students, th.id)))
        /\ UNCHANGED students

\* main.py:97-98  if student_id not in students: raise HTTPException(404)
DeleteStudentCheck ==
    \E w \in Threads :
        LET th == threads[w] IN
        /\ th.pc = "delete_student"
        /\ Step(w, IF ~Contains(students, th.id)
                   THEN Done(th, 404, NoResult)
                   ELSE Goto(th, "delete_student_del"))
        /\ UNCHANGED students

\* main.py:99-100  del students[student_id]; a missing key raises KeyError
DeleteStudentDel ==
    \E w \in Threads :
        LET th == threads[w] IN
        /\ th.pc = "delete_student_del"
        /\ IF ~Contains(students, th.id)
           THEN /\ Step(w, Done(th, 500, NoResult))
                /\ UNCHANGED students
           ELSE /\ students' = DelItem(students, th.id)
                /\ Step(w, Done(th, 204, NoResult))

\* The responses of the round are delivered; the threads are free again.
Finish ==
    /\ \A w \in Threads : threads[w].pc \in {"idle", "done"}
    /\ \E w \in Threads : threads[w].pc = "done"
    /\ threads' = [w \in Threads |-> IdleThread]
    /\ UNCHANGED <<students, courses, now, issued, fresh, deleted, response>>

NextConc ==
    \/ Accept
    \/ CreateStudentCheck
    \/ CreateStudentInsert
    \/ UpdateStudentCheck
    \/ UpdateStudentRead
    \/ UpdateStudentWrite
    \/ UpdateStudentReturn
    \/ DeleteStudentCheck
    \/ DeleteStudentDel
    \/ Finish

SpecConc == Init /\ [][NextConc]_vars

\* ================================================================ claims
\* A step that answers a request: the response it leaves is not Idle.
Answered(op, status) == response'.op = op /\ response'.status = status

\* The entries of dict d other than key k are the same in dict e.
SameExcept(d, e, k) ==
    \A j \in Keys(d) \ {k} : Contains(e, j) /\ GetItem(e, j) = GetItem(d, j)

\* ------------------------------------------------------------------- C1
\* C1: a schema-valid create_student answers 400 exactly when the id its
\* body carries is already a key of students; otherwise it answers 201 with
\* a record of that id (the generated one when the body carries none), and
\* students gains exactly that one record, stored under that id.
C1_CreateStudentConflict ==
    [][(response'.op = "create_student" /\ response'.status # 422) =>
        LET body == response'.body
            clash == "id" \in DOMAIN body /\ Contains(students, body.id.v)
            rec == response'.result
        IN /\ response'.status \in {400, 201}
           /\ (response'.status = 400) <=> clash
           /\ response'.status = 201 =>
                /\ ("id" \in DOMAIN body => rec.id = body.id.v)
                /\ ~Contains(students, rec.id)
                /\ Keys(students') = Keys(students) \cup {rec.id}
                /\ Len(students') = Len(students) + 1
                /\ GetItem(students', rec.id) = rec
                /\ SameExcept(students, students', rec.id)
      ]_vars

\* A create was refused for an id that is stored, next to another record.
C1_Witness ==
    /\ response.op = "create_student"
    /\ response.status = 400
    /\ Contains(students, response.body.id.v)
    /\ Len(students) = 2

\* ------------------------------------------------------------------- C2
\* C2: a successful update_student / update_course leaves the stored and the
\* returned record with updated_at equal to the time of the update.
C2_UpdatedAtRefreshed ==
    [][/\ Answered("update_student", 200) =>
            /\ response'.result.updated_at = now'
            /\ GetItem(students', response'.id).updated_at = now'
       /\ Answered("update_course", 200) =>
            /\ response'.result.updated_at = now'
            /\ GetItem(courses', response'.id).updated_at = now'
      ]_vars

\* ------------------------------------------------------------------- C3
\* C3: a schema-valid create_course answers 201 with a record that is stored
\* under its id and that get_course returns, or 400 for an id already
\* present; it has no other outcome.
C3_CreateCourseSucceeds ==
    (response.op = "create_course" /\ CourseBaseValid(response.body)) =>
        /\ response.status \in {201, 400}
        /\ response.status = 201 =>
             /\ Contains(courses, response.result.id)
             /\ GetItem(courses, response.result.id) = response.result
             /\ get_course(response.result.id).status = 200
             /\ get_course(response.result.id).result = response.result

\* ------------------------------------------------------------------- C4
\* C4: a successful update_student / update_course leaves every field of the
\* record that the update model does not set (every field but the name and
\* email, resp. name, professor and enrolled_students, that the body
\* carries) as it was, every other record of the store as it was, and the
\* other store as it was.
C4_UpdateFrame ==
    [][/\ Answered("update_student", 200) =>
            LET id == response'.id
                set == (DOMAIN response'.body) \cap {"name", "email"}
                R == GetItem(students, id)
            IN /\ Keys(students') = Keys(students)
               /\ \A f \in (DOMAIN R) \ set : GetItem(students', id)[f] = R[f]
               /\ \A f \in (DOMAIN R) \ set : response'.result[f] = R[f]
               /\ SameExcept(students, students', id)
               /\ courses' = courses
       /\ Answered("update_course", 200) =>
            LET id == response'.id
                set == (DOMAIN response'.body)
                           \cap {"name", "professor", "enrolled_students"}
                R == GetItem(courses, id)
            IN /\ Keys(courses') = Keys(courses)
               /\ \A f \in (DOMAIN R) \ set : GetItem(courses', id)[f] = R[f]
               /\ SameExcept(courses, courses', id)
               /\ students' = students
      ]_vars

\* A name-only update of one of two stored students was applied after the
\* clock had moved past the record's timestamps.
C4_Witness ==
    /\ response.op = "update_student"
    /\ response.status = 200
    /\ DOMAIN response.body = {"name"}
    /\ Len(students) = 2
    /\ response.result.name = response.body.name.v
    /\ response.result.updated_at < now

\* ------------------------------------------------------------------- C5
\* C5: after a successful update every client-settable field the body
\* carries (students: name, student_id, email; courses: name, code,
\* professor, credits, enrolled_students) has the body's value in the stored
\* record.
C5_PresentFieldsOverwrite ==
    [][/\ Answered("update_student", 200) =>
            \A f \in (DOMAIN response'.body) \cap {"name", "student_id", "email"} :
                GetItem(students', response'.id)[f] = response'.body[f].v
       /\ Answered("update_course", 200) =>
            /\ \A f \in (DOMAIN response'.body)
                          \cap {"name", "code", "professor", "credits"} :
                  GetItem(courses', response'.id)[f] = response'.body[f].v
            /\ "enrolled_students" \in DOMAIN response'.body =>
                  CourseReadDump(GetItem(courses', response'.id)).enrolled_students
                      = response'.body.enrolled_students
      ]_vars

\* ------------------------------------------------------------------- C6
\* C6: a delete that answers 204 removes the id; as long as no create for
\* the id has succeeded since, the id stays absent and every get, update
\* (with a body the schema accepts) or delete on it answers 404; a delete on
\* an id that is not stored answers 404.
C6_DeletedStaysGone ==
    [][/\ deleted' \cap Keys(students') = {}
       /\ Answered("delete_student", 204) =>
            /\ ~Contains(students', response'.id)
            /\ response'.id \in deleted'
       /\ (/\ response'.op \in {"get_student", "update_student", "delete_student"}
           /\ response'.status # 422
           /\ response'.id \in deleted)
            => response'.status = 404
       /\ (response'.op = "delete_student" /\ ~Contains(students, response'.id))
            => response'.status = 404
       /\ Answered("delete_course", 204) => ~Contains(courses', response'.id)
       /\ (/\ response'.op \in {"get_course", "update_course", "delete_course"}
           /\ response'.status # 422
           /\ ~Contains(courses, response'.id))
            => response'.status = 404
      ]_vars

\* An update was refused with 404 for an id deleted earlier, another record
\* being stored.
C6_Witness ==
    /\ response.op = "update_student"
    /\ response.id \in deleted
    /\ response.status = 404
    /\ Len(students) = 1

\* ------------------------------------------------------------------- C7
\* C7: a get_student on an id that was created and neither updated nor
\* deleted since answers 200 with the record the create returned.
C7_RoundTrip ==
    (response.op = "get_student" /\ response.id \in DOMAIN fresh) =>
        /\ response.status = 200
        /\ response.result = fresh[response.id]

\* The get of a created record whose two timestamps differ.
C7_Witness ==
    /\ response.op = "get_student"
    /\ response.id \in DOMAIN fresh
    /\ response.status = 200
    /\ response.result.created_at < response.result.updated_at

\* ------------------------------------------------------------------- C8
\* C8: the id a successful create_student returns differs from the id of
\* every earlier successful create_student, deleted since or not.
C8_CreatedIdsNeverReused ==
    [][Answered("create_student", 201) => response'.result.id \notin issued]_vars

\* ------------------------------------------------------------------- C9
\* C9: a create, update or delete request that does not answer 200, 201 or
\* 204 leaves students and courses as they were.
C9_ErrorsLeaveStores ==
    [][(/\ response'.op \in {"create_student", "update_student",
                            "delete_student", "create_course",
                            "update_course", "delete_course"}
        /\ response'.status \notin {200, 201, 204})
        => students' = students /\ courses' = courses
      ]_vars

\* An update whose body sets name to null failed inside the handler.
C9_Witness ==
    /\ response.op = "update_student"
    /\ response.status = 500
    /\ "name" \in DOMAIN response.body
    /\ IsNone(response.body.name)
    /\ Contains(students, response.id)

\* ------------------------------------------------------------------ C10
\* C10: list_students / list_courses answer 200 with exactly the stored
\* records that equal every supplied filter, each once; a filter that is not
\* supplied constrains nothing.
MatchesStudent(s, f) ==
    /\ IsNone(f.name) \/ s.name = f.name.v
    /\ IsNone(f.student_id) \/ s.student_id = f.student_id.v

MatchesCourse(c, f) ==
    /\ IsNone(f.name) \/ c.name = f.name.v
    /\ IsNone(f.professor) \/ c.professor = f.professor.v
    /\ IsNone(f.credits) \/ c.credits = f.credits.v

C10_ListFilters ==
    /\ response.op = "list_students" =>
         LET got == response.result.items
             hits == {i \in 1..Len(students) :
                         MatchesStudent(students[i].val, response.body)}
         IN /\ response.status = 200
            /\ {got[i] : i \in 1..Len(got)} = {students[i].val : i \in hits}
            /\ Len(got) = Cardinality(hits)
    /\ response.op = "list_courses" =>
         LET got == response.result.items
             hits == {i \in 1..Len(courses) :
                         MatchesCourse(courses[i].val, response.body)}
         IN /\ response.status = 200
            /\ {got[i] : i \in 1..Len(got)} = {courses[i].val : i \in hits}
            /\ Len(got) = Cardinality(hits)

\* Both filters were supplied and one of the two stored students matched.
C10_Witness ==
    /\ response.op = "list_students"
    /\ ~IsNone(response.body.name)
    /\ ~IsNone(response.body.student_id)
    /\ Len(students) = 2
    /\ Len(response.result.items) = 1

\* ------------------------------------------------------------------ C11
\* C11: every stored student has a non-empty name, and every stored course
\* a non-empty name, code and professor.
C11_StoredRecordsValid ==
    /\ \A i \in 1..Len(students) : students[i].val.name # ""
    /\ \A i \in 1..Len(courses) :
         /\ courses[i].val.name # ""
         /\ courses[i].val.code # ""
         /\ courses[i].val.professor # ""

\* ------------------------------------------------------------------ C12
\* C12: the record stored under key k has id k, so the ids of a store are
\* pairwise distinct, and no update_student / update_course changes the id
\* of a stored record, whatever its body carries.
C12_KeyIsId ==
    [][/\ \A i \in 1..Len(students') : students'[i].val.id = students'[i].key
       /\ Cardinality(Keys(students')) = Len(students')
       /\ \A i \in 1..Len(courses') : courses'[i].val.id = courses'[i].key
       /\ Cardinality(Keys(courses')) = Len(courses')
       /\ response'.op = "update_student" =>
            /\ Keys(students') = Keys(students)
            /\ \A k \in Keys(students) :
                 GetItem(students', k).id = GetItem(students, k).id
       /\ response'.op = "update_course" =>
            /\ Keys(courses') = Keys(courses)
            /\ \A k \in Keys(courses) :
                 GetItem(courses', k).id = GetItem(courses, k).id
      ]_vars

\* An update whose body carries another id succeeded next to a second record.
C12_Witness ==
    /\ response.op = "update_student"
    /\ response.status = 200
    /\ "id" \in DOMAIN response.body
    /\ response.body.id.v # response.id
    /\ Len(students) = 2

\* ------------------------------------------------------------------ C13
\* C13: as long as a record stays stored, its created_at keeps the value set
\* at creation and its updated_at never decreases.
C13_TimestampsMonotone ==
    [][/\ \A k \in Keys(students) \cap Keys(students') :
            /\ GetItem(students', k).created_at = GetItem(students, k).created_at
            /\ GetItem(students', k).updated_at >= GetItem(students, k).updated_at
       /\ \A k \in Keys(courses) \cap Keys(courses') :
            /\ GetItem(courses', k).created_at = GetItem(courses, k).created_at
            /\ GetItem(courses', k).updated_at >= GetItem(courses, k).updated_at
      ]_vars

\* A record created earlier was updated after the clock had advanced.
C13_Witness ==
    /\ response.op = "update_student"
    /\ response.status = 200
    /\ Contains(students, response.id)
    /\ GetItem(students, response.id).created_at < now

\* ------------------------------------------------------------------ C14
\* C14: every student operation leaves the courses store as it was, embedded
\* student snapshots included, and every course operation leaves the
\* students store as it was.
StudentOps ==
    {"create_student", "get_student", "list_students", "update_student",
     "delete_student"}

CourseOps ==
    {"create_course", "get_course", "list_courses", "update_course",
     "delete_course"}

C14_StoresIndependent ==
    [][/\ response'.op \in StudentOps => courses' = courses
       /\ response'.op \in CourseOps => students' = students
      ]_vars

\* A delete_course was answered for the id of one of two stored students.
C14_Witness ==
    /\ response.op = "delete_course"
    /\ Contains(students, response.id)
    /\ Len(students) = 2

\* ------------------------------------------------------------------ C15
\* C15: an update_student / update_course on a stored id answers 200 or is
\* rejected by the schema with 422; it never fails inside the handler.
C15_UpdateValidatedBySchema ==
    /\ (response.op = "update_student" /\ Contains(students, response.id))
         => response.status \in {200, 422}
    /\ (response.op = "update_course" /\ Contains(courses, response.id))
         => response.status \in {200, 422}

\* ------------------------------------------------------------------ C16
\* C16: get_health_no_path and get_health_with_path leave both stores as
\* they were, report status 200, and return the query parameter as echo
\* (null when absent) and the path segment as path_echo (null on the route
\* without one).
C16_HealthPure ==
    [][/\ response'.op = "get_health_no_path" =>
            /\ students' = students /\ courses' = courses
            /\ response'.status = 200
            /\ response'.result.status = 200
            /\ response'.result.echo = response'.body.echo
            /\ IsNone(response'.result.path_echo)
       /\ response'.op = "get_health_with_path" =>
            /\ students' = students /\ courses' = courses
            /\ response'.status = 200
            /\ response'.result.status = 200
            /\ response'.result.echo = response'.body.echo
            /\ response'.result.path_echo = response'.body.path_echo
      ]_vars

\* The route with a path segment was called without the query parameter
\* while two students were stored.
C16_Witness ==
    /\ response.op = "get_health_with_path"
    /\ IsNone(response.body.echo)
    /\ response.result.path_echo = PyStr("pong")
    /\ Len(students) = 2

\* ------------------------------------------------------------------ C17
\* C17: the stores keep insertion order and the lists follow it. A
\* successful create puts its record after the stored ones, an update keeps
\* every record where it is, a delete keeps the order of the others, and no
\* other request changes the store, so two lists with no write in between
\* see the same store; a list without filters returns the stored records in
\* that order, and a list with filters a subsequence of them.
KeySeq(d) == [i \in 1..Len(d) |-> d[i].key]

IsSubsequence(a, b) ==
    \E f \in [1..Len(a) -> 1..Len(b)] :
        /\ \A i \in 1..Len(a) : a[i] = b[f[i]]
        /\ \A i, j \in 1..Len(a) : i < j => f[i] < f[j]

C17_InsertionOrder ==
    [][/\ Answered("create_student", 201) =>
            KeySeq(students') = Append(KeySeq(students), response'.result.id)
       /\ Answered("update_student", 200) =>
            KeySeq(students') = KeySeq(students)
       /\ Answered("delete_student", 204) =>
            KeySeq(students') =
                SelectSeq(KeySeq(students), LAMBDA k : k # response'.id)
       /\ (response'.op \in {"get_student", "list_students"}
             \cup CourseOps \cup {"get_health_no_path", "get_health_with_path"})
            => students' = students
       /\ response'.op = "list_students" =>
            /\ (IsNone(response'.body.name) /\ IsNone(response'.body.student_id))
                 => response'.result.items = Values(students)
            /\ IsSubsequence(response'.result.items, Values(students))
       /\ Answered("create_course", 201) =>
            KeySeq(courses') = Append(KeySeq(courses), response'.result.id)
       /\ Answered("update_course", 200) =>
            KeySeq(courses') = KeySeq(courses)
       /\ Answered("delete_course", 204) =>
            KeySeq(courses') =
                SelectSeq(KeySeq(courses), LAMBDA k : k # response'.id)
       /\ response'.op = "list_courses" =>
            /\ (/\ IsNone(response'.body.name)
                /\ IsNone(response'.body.professor)
                /\ IsNone(response'.body.credits))
                 => response'.result.items = Values(courses)
            /\ IsSubsequence(response'.result.items, Values(courses))
      ]_vars

\* Two students are listed without filters after the one stored first was
\* updated.
C17_Witness ==
    /\ response.op = "list_students"
    /\ IsNone(response.body.name)
    /\ IsNone(response.body.student_id)
    /\ Len(response.result.items) = 2
    /\ students[1].key \notin DOMAIN fresh

\* ------------------------------------------------------------------ C18
\* C18: of two create_student calls with the same id that run in the same
\* round, at most one is answered 201.
C18_AtMostOneCreated ==
    \A w, x \in Threads :
        (/\ w # x
         /\ threads[w].pc = "done" /\ threads[x].pc = "done"
         /\ threads[w].op = "create_student"
         /\ threads[x].op = "create_student"
         /\ threads[w].id = threads[x].id)
        => ~(threads[w].status = 201 /\ threads[x].status = 201)

\* ------------------------------------------------------------------ C19
\* C19: an update_student and a delete_student of the same stored id that run
\* in the same round end as one of the two serial orders does: the delete is
\* answered 204, the update 200 or 404, and the id is absent.
C19_UpdateDeleteSerial ==
    \A w, x \in Threads :
        (/\ threads[w].pc = "done" /\ threads[x].pc = "done"
         /\ threads[w].op = "update_student"
         /\ threads[x].op = "delete_student"
         /\ threads[w].id = threads[x].id
         /\ (threads[w].present \/ threads[x].present))
        => /\ threads[x].status = 204
           /\ threads[w].status \in {200, 404}
           /\ ~Contains(students, threads[w].id)

====
